---- MODULE Spec2Model ----
(***************************************************************************)
(* Model of watch.py: the availability watcher's run loop (main), its      *)
(* persisted state (load_state / save_state), the notification decision    *)
(* logic, the heartbeat gate and the page reduction (scrape_once,          *)
(* free_hash).                                                             *)
(*                                                                         *)
(* Time is counted in ticks of a quarter second, so that the 0.5 s         *)
(* "negligible sleep" threshold of main() is a whole number of ticks.      *)
(* Text is modelled as sequences of tokens: "" is the empty sequence.      *)
(***************************************************************************)
EXTENDS Integers, Sequences, FiniteSets, TLC

\* ------------------------------------------------------------------------
\* Module constants of watch.py
\* ------------------------------------------------------------------------
TARGET_TYPES == {<<"Komfort-Apartment">>}

POLL_INTERVAL_NO_FREE_SEC == 30
POLL_INTERVAL_FREE_SEC == 10
RUN_WINDOW_SEC == 45
MIN_REMAINING_TO_START_SCRAPE == 8
SEND_STILL_MESSAGES == TRUE
MAX_STILL_PER_RUN == 3
HTTP_GET_TIMEOUT == 20
TELEGRAM_TIMEOUT == 10

\* ------------------------------------------------------------------------
\* Bounds of the model
\* ------------------------------------------------------------------------
\* number of successive invocations of main() that share the state file
MaxRuns == 2

\* cap on loop_i, the cycle counter of main(); a run never comes near it
MaxLoop == 6

\* seconds -> ticks (quarter seconds)
Ticks(s) == 4 * s

\* the 0.5 s threshold of "if sleep_for < 0.5"
MinSleepTicks == Ticks(1) \div 2

\* how long a page fetch may take: immediate, 4.75 s, or the full timeout
FetchDurations == {0, 19, Ticks(HTTP_GET_TIMEOUT)}

\* a variant of SendDurations for a post without timeout=
SendDurationsNoTimeout ==
  {0, Ticks(TELEGRAM_TIMEOUT), Ticks(TELEGRAM_TIMEOUT + TELEGRAM_TIMEOUT)}

\* how long a notification send may take: immediate or the full timeout
SendDurations == {0, Ticks(TELEGRAM_TIMEOUT)}

\* The local wall clock (datetime.now(TZ)) as the run can observe it: a
\* non-decreasing walk over these instants.
WallClock ==
  << [date |-> 1, hour |-> 10, minute |-> 0],
     [date |-> 1, hour |-> 10, minute |-> 5],
     [date |-> 1, hour |-> 12, minute |-> 0],
     [date |-> 1, hour |-> 18, minute |-> 2] >>

\* ------------------------------------------------------------------------
\* Text helpers
\* ------------------------------------------------------------------------
EmptyStr == <<>>

Min(a, b) == IF a <= b THEN a ELSE b

\* code point order of the characters an identifier is written with
CharCode(c) ==
  CASE c = "0" -> 48 [] c = "1" -> 49 [] c = "2" -> 50 [] c = "3" -> 51
    [] c = "4" -> 52 [] c = "5" -> 53 [] c = "6" -> 54 [] c = "7" -> 55
    [] c = "8" -> 56 [] c = "9" -> 57

\* str < str: lexicographic order on sequences of characters
RECURSIVE LexLess(_, _)
LexLess(a, b) ==
  IF a = <<>> THEN b # <<>>
  ELSE IF b = <<>> THEN FALSE
  ELSE IF Head(a) # Head(b) THEN CharCode(Head(a)) < CharCode(Head(b))
  ELSE LexLess(Tail(a), Tail(b))

\* str.strip() on a token sequence: drop leading and trailing " " tokens
RECURSIVE LStrip(_)
LStrip(s) == IF s # <<>> /\ Head(s) = " " THEN LStrip(Tail(s)) ELSE s

RECURSIVE RStrip(_)
RStrip(s) ==
  IF s # <<>> /\ s[Len(s)] = " " THEN RStrip(SubSeq(s, 1, Len(s) - 1)) ELSE s

Strip(s) == RStrip(LStrip(s))

\* index of the first "Nr." token, 0 when there is none
RECURSIVE FirstNr(_, _)
FirstNr(s, i) ==
  IF i > Len(s) THEN 0 ELSE IF s[i] = "Nr." THEN i ELSE FirstNr(s, i + 1)

\* re.sub(r"\s*Nr\..*$", "", title).strip()
base_type(title) ==
  LET i == FirstNr(title, 1)
  IN  Strip(IF i = 0 THEN title ELSE SubSeq(title, 1, i - 1))

\* hashlib.sha1(...).hexdigest(): a non-empty digest, taken to be free of
\* collisions; the digest of core is the tagged sequence <<"sha1">> \o core
sha1(s) == <<"sha1">> \o s

\* ------------------------------------------------------------------------
\* scrape_once: page -> (total_komfort, free_units_sorted, status_counts,
\* unknown_status).  An anchor is
\*   [title, number, status, marker, link]
\* title  : token sequence of data-original-title / title
\* number : the anchor text, a sequence of digit characters
\* status : what the "Status:" pattern of extract_status_and_link yields,
\*          lower-cased; "None" when the pattern does not match
\* marker : "unit_free" in data_text
\* link   : what the href pattern yields, "None" when it does not match
\* ------------------------------------------------------------------------
KnownStatus == {"frei", "reserviert", "vermietet"}

ZeroCounts == [s \in KnownStatus |-> 0]

\* status after lines 120-123
StatusOf(a) == IF a.status = "None" /\ a.marker THEN "frei" ELSE a.status

\* insertion into a list sorted by (typ, number); stable for equal keys
UnitLess(u, v) == u[1] = v[1] /\ LexLess(u[2], v[2])

RECURSIVE SortedInsert(_, _)
SortedInsert(u, l) ==
  IF l = <<>> THEN <<u>>
  ELSE IF UnitLess(u, Head(l)) THEN <<u>> \o l
  ELSE <<Head(l)>> \o SortedInsert(u, Tail(l))

\* sorted(free_units, key=lambda x: (x[0], x[1]))
RECURSIVE SortUnits(_)
SortUnits(l) ==
  IF l = <<>> THEN <<>>
  ELSE SortedInsert(l[Len(l)], SortUnits(SubSeq(l, 1, Len(l) - 1)))

\* a variant of ScrapeLoop without the "if key in seen: continue"
RECURSIVE ScrapeLoopNoDedup(_, _, _, _, _, _)
ScrapeLoopNoDedup(anchors, i, seen, free_units, status_counts, unknown_status) ==
  IF i > Len(anchors)
  THEN [total_komfort |-> Cardinality(seen),
        free_units_sorted |-> SortUnits(free_units),
        status_counts |-> status_counts,
        unknown_status |-> unknown_status]
  ELSE
    LET a == anchors[i]
        typ == base_type(a.title)
        key == <<typ, a.number>>
        status == StatusOf(a)
    IN  IF typ \notin TARGET_TYPES
        THEN ScrapeLoopNoDedup(anchors, i + 1, seen, free_units,
                               status_counts, unknown_status)
        ELSE ScrapeLoopNoDedup(
               anchors, i + 1, seen \cup {key},
               IF status = "frei"
                 THEN Append(free_units, <<typ, a.number, a.link>>)
                 ELSE free_units,
               IF status \in KnownStatus
                 THEN [status_counts EXCEPT ![status] = @ + 1]
                 ELSE status_counts,
               IF status \notin KnownStatus /\ status # "None"
                 THEN unknown_status + 1
                 ELSE unknown_status)

\* the for loop of scrape_once over anchors[i..], with its accumulators
RECURSIVE ScrapeLoop(_, _, _, _, _, _)
ScrapeLoop(anchors, i, seen, free_units, status_counts, unknown_status) ==
  IF i > Len(anchors)
  THEN [total_komfort |-> Cardinality(seen),
        free_units_sorted |-> SortUnits(free_units),
        status_counts |-> status_counts,
        unknown_status |-> unknown_status]
  ELSE
    LET a == anchors[i]
        typ == base_type(a.title)
        key == <<typ, a.number>>
        status == StatusOf(a)
    IN  IF typ \notin TARGET_TYPES \/ key \in seen
        THEN ScrapeLoop(anchors, i + 1, seen, free_units, status_counts,
                        unknown_status)
        ELSE ScrapeLoop(
               anchors, i + 1, seen \cup {key},
               IF status = "frei"
                 THEN Append(free_units, <<typ, a.number, a.link>>)
                 ELSE free_units,
               IF status \in KnownStatus
                 THEN [status_counts EXCEPT ![status] = @ + 1]
                 ELSE status_counts,
               IF status \notin KnownStatus /\ status # "None"
                 THEN unknown_status + 1
                 ELSE unknown_status)

scrape_once(page) == ScrapeLoop(page, 1, {}, <<>>, ZeroCounts, 0)

\* a variant of UnitCore that keeps the link only
UnitCoreLinkOnly(u) == IF u[3] = "None" THEN <<>> ELSE <<u[3]>>

\* f"{t}|{n}|{l or ''}" for one unit, as tokens
UnitCore(u) == u[1] \o <<"|">> \o u[2] \o <<"|">> \o
               (IF u[3] = "None" THEN <<>> ELSE <<u[3]>>)

\* "\n".join([...])
RECURSIVE JoinCore(_)
JoinCore(l) ==
  IF l = <<>> THEN <<>>
  ELSE IF Len(l) = 1 THEN UnitCore(l[1])
  ELSE UnitCore(l[1]) \o <<"\n">> \o JoinCore(Tail(l))

\* free_hash(free_units_sorted)
free_hash(free_units_sorted) ==
  LET core == JoinCore(free_units_sorted)
  IN  IF core # <<>> THEN sha1(core) ELSE EmptyStr

\* ------------------------------------------------------------------------
\* Pages the site may serve
\* ------------------------------------------------------------------------
KomfortTitle(n) == <<"Komfort-Apartment", " ", "Nr.", " ">> \o n

Anchor(t, n, s, m, l) ==
  [title |-> t, number |-> n, status |-> s, marker |-> m, link |-> l]

AFree12 == Anchor(KomfortTitle(<<"1", "2">>), <<"1", "2">>, "frei", TRUE, "L12")
ARented12 == Anchor(KomfortTitle(<<"1", "2">>), <<"1", "2">>, "vermietet", FALSE, "None")
AMarker9 == Anchor(KomfortTitle(<<"9">>), <<"9">>, "None", TRUE, "None")
AReserved7 == Anchor(KomfortTitle(<<"7">>), <<"7">>, "reserviert", FALSE, "None")
AOdd5 == Anchor(KomfortTitle(<<"5">>), <<"5">>, "belegt", FALSE, "None")
AStudio3 == Anchor(<<"Studio", " ", "Nr.", " ", "3">>, <<"3">>, "frei", TRUE, "L3")

\* a Komfort anchor with neither a "Status:" label nor the free marker
ANoStatus4 == Anchor(KomfortTitle(<<"4">>), <<"4">>, "None", FALSE, "None")

\* a second anchor for unit 12, free where the other one is rented
AFree12NoLink == Anchor(KomfortTitle(<<"1", "2">>), <<"1", "2">>, "None", TRUE, "None")

\* the anchors a page is made of, and the longest page considered
AnchorPool ==
  {AFree12, ARented12, AFree12NoLink, AMarker9, AReserved7, AOdd5, AStudio3,
   ANoStatus4}

MaxAnchors == 3

AllPages == UNION {[1..k -> AnchorPool] : k \in 0..MaxAnchors}

Pages ==
  { <<AStudio3, AReserved7, AOdd5>>,
    <<AFree12, ARented12, AReserved7>>,
    <<AFree12, AMarker9>> }

\* ------------------------------------------------------------------------
\* State
\* ------------------------------------------------------------------------
VARIABLES
  file,               \* state.json: [kind, data], kind absent / corrupt / ok
  state,              \* the dict main() holds
  pc,                 \* where main() stands
  elapsed,            \* time.monotonic() - start, in ticks
  wall,               \* index into WallClock of the current local time
  now,                \* the value of "now" read at the top of the cycle
  heartbeat_checked,
  still_sent,
  loop_i,
  snap,               \* what scrape_once returned in this cycle
  dec,                \* had_free, current_hash, last_hash of this cycle
  out,                \* send_telegram calls of this cycle: [kind, ok]
  how,                \* why the loop (or the run) ended
  exit_status,        \* process exit status of the run, -1 while running
  runs,               \* invocations of main() so far
  loaded,             \* what load_state found at the start of this run
  state0,             \* state at the top of this cycle
  stillRun,           \* STILL messages handed to send_telegram in this run
  hbCount,            \* heartbeats delivered so far, per HeartbeatKey
  exits,              \* exit statuses seen so far, per kind of loop end
  page,               \* the anchors of the page scraped in this cycle
  alerted             \* signatures whose ALERT was delivered so far

vars == << file, state, pc, elapsed, wall, now, heartbeat_checked, still_sent,
           loop_i, snap, dec, out, how, exit_status, runs, loaded, state0,
           stillRun, hbCount, exits, page, alerted >>

DefaultState == [last_free_hash |-> EmptyStr, last_heartbeat_key |-> EmptyStr]

\* load_state(): the dict it returns when it returns
load_state(f) == IF f.kind = "absent" THEN DefaultState ELSE f.data

\* load_state(): json.load raises (only FileNotFoundError is caught)
LoadRaises(f) == f.kind = "corrupt"

\* now.strftime("%Y-%m-%d_%H")
hb_key(n) == <<WallClock[n].date, WallClock[n].hour>>

HbKeys == {hb_key(i) : i \in 1..Len(WallClock)}

\* a variant of deadline that adds the start threshold to the window
deadlineNoMargin == Ticks(RUN_WINDOW_SEC + MIN_REMAINING_TO_START_SCRAPE)

deadline == Ticks(RUN_WINDOW_SEC)

NoSnap == scrape_once(<<>>)

NoDec == [had_free |-> FALSE, current_hash |-> EmptyStr, last_hash |-> EmptyStr]

Init ==
  /\ file \in {[kind |-> "absent", data |-> DefaultState],
               [kind |-> "corrupt", data |-> DefaultState]}
  /\ state = DefaultState
  /\ pc = "idle"
  /\ elapsed = 0
  /\ wall = 1
  /\ now = 1
  /\ heartbeat_checked = FALSE
  /\ still_sent = 0
  /\ loop_i = 0
  /\ snap = NoSnap
  /\ dec = NoDec
  /\ out = <<>>
  /\ how = "running"
  /\ exit_status = -1
  /\ runs = 0
  /\ loaded = "absent"
  /\ state0 = DefaultState
  /\ stillRun = 0
  /\ hbCount = [k \in HbKeys |-> 0]
  /\ exits = [normal |-> {}, aborted |-> {}]
  /\ page = <<>>
  /\ alerted = {}

\* an exception leaves main(): the process ends with status 1, state.json
\* is not written
Raise(why) ==
  /\ pc' = "crashed"
  /\ how' = why
  /\ exit_status' = 1

\* send_telegram(text): one call, returning (ok) or raising (~ok) after d
Send(kind, ok, d) ==
  /\ out' = Append(out, [kind |-> kind, ok |-> ok])
  /\ elapsed' = elapsed + d

\* main(), lines 154-162: a new invocation
StartRun ==
  /\ pc \in {"idle", "done", "crashed"}
  /\ runs < MaxRuns
  /\ runs' = runs + 1
  /\ loaded' = file.kind
  /\ elapsed' = 0
  /\ heartbeat_checked' = FALSE
  /\ still_sent' = 0
  /\ stillRun' = 0
  /\ loop_i' = 0
  /\ out' = <<>>
  /\ snap' = NoSnap
  /\ dec' = NoDec
  /\ IF LoadRaises(file)
       THEN /\ Raise("load_error")
            /\ UNCHANGED << state, state0 >>
       ELSE /\ state' = load_state(file)
            /\ state0' = load_state(file)
            /\ pc' = "loop_top"
            /\ how' = "running"
            /\ exit_status' = -1
  /\ page' = <<>>
  /\ UNCHANGED << file, wall, now, hbCount, exits, alerted >>

\* a variant of MayStartScrape that only asks for time left on the clock
MayStartScrapeAnyBudget(remaining) == ~(remaining < 0)

\* lines 168-170: enough budget remains to start a scrape
MayStartScrape(remaining) ==
  ~(remaining < Ticks(MIN_REMAINING_TO_START_SCRAPE))

\* lines 165-170: top of a poll cycle
LoopTop ==
  /\ pc = "loop_top"
  /\ loop_i < MaxLoop
  /\ loop_i' = loop_i + 1
  /\ \E w \in wall..Len(WallClock) : wall' = w /\ now' = w
  /\ out' = <<>>
  /\ state0' = state
  /\ snap' = NoSnap
  /\ dec' = NoDec
  /\ page' = <<>>
  /\ IF MayStartScrape(deadline - elapsed)
       THEN pc' = "scrape" /\ how' = "running"
       ELSE pc' = "save" /\ how' = "no_budget"
  /\ UNCHANGED << file, state, elapsed, heartbeat_checked, still_sent,
                  exit_status, runs, loaded, stillRun, hbCount, exits,
                  alerted >>

\* what scrape_once() returns on each page of Pages
Scraped == [p \in Pages |-> scrape_once(p)]

\* line 174: scrape_once() returns
ScrapeOk ==
  /\ pc = "scrape"
  /\ \E d \in FetchDurations, p \in Pages :
       /\ elapsed' = elapsed + d
       /\ page' = p
       /\ snap' = Scraped[p]
  /\ pc' = "heartbeat"
  /\ UNCHANGED << file, state, wall, now, heartbeat_checked, still_sent,
                  loop_i, dec, out, how, exit_status, runs, loaded, state0,
                  stillRun, hbCount, exits, alerted >>

\* line 174: scrape_once() raises (HTTPError or any other Exception)
ScrapeFails ==
  /\ pc = "scrape"
  /\ \E d \in FetchDurations : elapsed' = elapsed + d
  /\ pc' = "fail_notify"
  /\ how' = "fetch_error"
  /\ UNCHANGED << file, state, wall, now, heartbeat_checked, still_sent,
                  loop_i, snap, dec, out, exit_status, runs, loaded, state0,
                  stillRun, hbCount, exits, page, alerted >>

\* a variant of FailNotify without the inner try/except
FailNotifyUnguarded ==
  /\ pc = "fail_notify"
  /\ \E e \in {"HTTPError", "ERROR"}, ok \in BOOLEAN, d \in SendDurations :
       /\ Send(e, ok, d)
       /\ IF ok
            THEN pc' = "save" /\ UNCHANGED << how, exit_status >>
            ELSE Raise("send_error")
  /\ UNCHANGED << file, state, wall, now, heartbeat_checked, still_sent,
                  loop_i, snap, dec, runs, loaded, state0,
                  stillRun, hbCount, exits, page, alerted >>

\* a variant of FailNotify that retries the scrape (continue for break)
FailNotifyRetry ==
  /\ pc = "fail_notify"
  /\ \E e \in {"HTTPError", "ERROR"}, ok \in BOOLEAN, d \in SendDurations :
       Send(e, ok, d)
  /\ pc' = "loop_top"
  /\ UNCHANGED << file, state, wall, now, heartbeat_checked, still_sent,
                  loop_i, snap, dec, how, exit_status, runs, loaded, state0,
                  stillRun, hbCount, exits, page, alerted >>

\* lines 175-187: the except clauses: one send, its failure swallowed, break
FailNotify ==
  /\ pc = "fail_notify"
  /\ \E e \in {"HTTPError", "ERROR"}, ok \in BOOLEAN, d \in SendDurations :
       Send(e, ok, d)
  /\ pc' = "save"
  /\ UNCHANGED << file, state, wall, now, heartbeat_checked, still_sent,
                  loop_i, snap, dec, how, exit_status, runs, loaded, state0,
                  stillRun, hbCount, exits, page, alerted >>

\* a send_telegram call of main() outside any try: when it returns, the
\* statements after it run (state becomes st, main() goes on at nextpc);
\* when it raises, the exception leaves main()
Deliver(kind, st, nextpc) ==
  \E ok \in BOOLEAN, d \in SendDurations :
    /\ Send(kind, ok, d)
    /\ IF ok
         THEN /\ state' = st
              /\ pc' = nextpc
              /\ UNCHANGED << how, exit_status >>
         ELSE /\ Raise("send_error")
              /\ UNCHANGED state

\* a variant of HeartbeatDue that forgets the minute window
HeartbeatDueAnyMinute(n, st) ==
  /\ WallClock[n].hour \in {10, 18}
  /\ st.last_heartbeat_key # hb_key(n)

\* lines 192-194: the heartbeat is due
HeartbeatDue(n, st) ==
  /\ WallClock[n].hour \in {10, 18}
  /\ WallClock[n].minute < 5
  /\ st.last_heartbeat_key # hb_key(n)

\* lines 190-205: heartbeat gate, first cycle of the run only
Heartbeat ==
  /\ pc = "heartbeat"
  /\ heartbeat_checked' = TRUE
  /\ IF ~heartbeat_checked /\ HeartbeatDue(now, state)
       THEN /\ Deliver("HEARTBEAT",
                       [state EXCEPT !.last_heartbeat_key = hb_key(now)],
                       "decide")
            /\ hbCount' = IF pc' = "decide"
                            THEN [hbCount EXCEPT ![hb_key(now)] = @ + 1]
                            ELSE hbCount
       ELSE /\ pc' = "decide"
            /\ UNCHANGED << state, out, elapsed, how, exit_status, hbCount >>
  /\ UNCHANGED << file, wall, now, still_sent, loop_i, snap, dec, runs,
                  loaded, state0, stillRun, exits, page, alerted >>

\* a variant of Branch that alerts on every non-empty FreeList, without
\* comparing signatures
BranchNoCompare(had_free, current_hash, last_hash) ==
  IF had_free THEN "alert"
  ELSE IF last_hash # EmptyStr THEN "gone"
  ELSE "none"

\* a variant of Branch whose last elif is missing: no GONE, no reset
BranchNoGone(had_free, current_hash, last_hash) ==
  IF had_free /\ current_hash # last_hash THEN "alert"
  ELSE IF had_free /\ current_hash = last_hash THEN "still"
  ELSE "none"

\* lines 212, 217, 223: which branch of the message logic is taken
Branch(had_free, current_hash, last_hash) ==
  IF had_free /\ current_hash # last_hash THEN "alert"
  ELSE IF had_free /\ current_hash = last_hash THEN "still"
  ELSE IF ~had_free /\ last_hash # EmptyStr THEN "gone"
  ELSE "none"

\* a variant of StillAllowed that is off by one
StillAllowedOffByOne(n) == SEND_STILL_MESSAGES /\ n <= MAX_STILL_PER_RUN

\* line 219: a STILL message may still be sent in this run
StillAllowed(n) == SEND_STILL_MESSAGES /\ n < MAX_STILL_PER_RUN

\* lines 207-226: the message logic of one cycle
Decide ==
  /\ pc = "decide"
  /\ LET had_free == snap.free_units_sorted # <<>>
         current_hash == free_hash(snap.free_units_sorted)
         last_hash == state.last_free_hash
         b == Branch(had_free, current_hash, last_hash)
     IN  /\ dec' = [had_free |-> had_free, current_hash |-> current_hash,
                    last_hash |-> last_hash]
         /\ CASE b = "alert" ->
                   /\ Deliver("ALERT",
                              [state EXCEPT !.last_free_hash = current_hash],
                              "sleep")
                   /\ UNCHANGED << still_sent, stillRun >>
              [] b = "still" /\ StillAllowed(still_sent) ->
                   /\ still_sent' = still_sent + 1
                   /\ stillRun' = stillRun + 1
                   /\ Deliver("STILL", state, "sleep")
              [] b = "gone" ->
                   /\ Deliver("GONE",
                              [state EXCEPT !.last_free_hash = EmptyStr],
                              "sleep")
                   /\ UNCHANGED << still_sent, stillRun >>
              [] OTHER ->
                   /\ pc' = "sleep"
                   /\ UNCHANGED << state, out, elapsed, how, exit_status,
                                   still_sent, stillRun >>
         /\ alerted' = IF b = "alert" /\ pc' = "sleep"
                          THEN alerted \cup {current_hash}
                          ELSE alerted
  /\ UNCHANGED << file, wall, now, heartbeat_checked, loop_i, snap, runs,
                  loaded, state0, hbCount, exits, page >>

\* a variant of SleepFor that does not clamp the interval to the budget
SleepForUnclamped(had_free, remaining) ==
  IF had_free THEN Ticks(POLL_INTERVAL_FREE_SEC)
              ELSE Ticks(POLL_INTERVAL_NO_FREE_SEC)

\* lines 229 and 234: sleep_for = min(interval, remaining)
SleepFor(had_free, remaining) ==
  LET interval == IF had_free THEN Ticks(POLL_INTERVAL_FREE_SEC)
                              ELSE Ticks(POLL_INTERVAL_NO_FREE_SEC)
  IN  Min(interval, remaining)

\* lines 229-237: wait for the next scrape, or leave the loop
Sleep ==
  /\ pc = "sleep"
  /\ LET remaining == deadline - elapsed
         sleep_for == SleepFor(dec.had_free, remaining)
     IN  IF remaining <= 0
           THEN pc' = "save" /\ how' = "budget" /\ UNCHANGED elapsed
         ELSE IF sleep_for < MinSleepTicks
           THEN pc' = "save" /\ how' = "short_sleep" /\ UNCHANGED elapsed
         ELSE pc' = "loop_top" /\ elapsed' = elapsed + sleep_for
                               /\ UNCHANGED how
  /\ UNCHANGED << file, state, wall, now, heartbeat_checked, still_sent,
                  loop_i, snap, dec, out, exit_status, runs, loaded, state0,
                  stillRun, hbCount, exits, page, alerted >>

\* lines 239-240 and the normal return of main(): exit status 0
Save ==
  /\ pc = "save"
  /\ file' = [kind |-> "ok", data |-> state]
  /\ pc' = "done"
  /\ exit_status' = 0
  /\ exits' = IF how = "fetch_error"
                THEN [exits EXCEPT !.aborted = @ \cup {0}]
                ELSE [exits EXCEPT !.normal = @ \cup {0}]
  /\ UNCHANGED << state, elapsed, wall, now, heartbeat_checked, still_sent,
                  loop_i, snap, dec, out, how, runs, loaded, state0,
                  stillRun, hbCount, page, alerted >>

Next ==
  \/ StartRun
  \/ LoopTop
  \/ ScrapeOk
  \/ ScrapeFails
  \/ FailNotify
  \/ Heartbeat
  \/ Decide
  \/ Sleep
  \/ Save

Spec == Init /\ [][Next]_vars

\* the steps of a run that has started: main() is sequential code whose
\* calls return or raise within their timeouts, so a started run always
\* takes its next step
RunStep ==
  \/ LoopTop
  \/ ScrapeOk
  \/ ScrapeFails
  \/ FailNotify
  \/ Heartbeat
  \/ Decide
  \/ Sleep
  \/ Save

\* the variables of main() and of the observers before the first run
InitRest ==
  /\ state = DefaultState
  /\ elapsed = 0
  /\ now = 1
  /\ heartbeat_checked = FALSE
  /\ still_sent = 0
  /\ loop_i = 0
  /\ snap = NoSnap
  /\ dec = NoDec
  /\ out = <<>>
  /\ how = "running"
  /\ exit_status = -1
  /\ runs = 0
  /\ loaded = "absent"
  /\ state0 = DefaultState
  /\ stillRun = 0
  /\ hbCount = [k \in HbKeys |-> 0]
  /\ exits = [normal |-> {}, aborted |-> {}]
  /\ alerted = {}

\* the state files a run can find: none, a corrupt one, or one written by
\* save_state at the end of an earlier run
StateFiles ==
  {[kind |-> "absent", data |-> DefaultState],
   [kind |-> "corrupt", data |-> DefaultState]}
  \cup
  {[kind |-> "ok", data |-> [last_free_hash |-> h, last_heartbeat_key |-> k]] :
     h \in {EmptyStr} \cup {free_hash(scrape_once(p).free_units_sorted) :
                              p \in Pages},
     k \in {EmptyStr} \cup {hb_key(i) : i \in {j \in 1..Len(WallClock) :
                                                 WallClock[j].hour \in {10, 18}}}}

\* one invocation of main(), on any of these state files
InitOneRun ==
  /\ file \in StateFiles
  /\ pc = "idle"
  /\ wall \in 1..Len(WallClock)
  /\ page = <<>>
  /\ InitRest

FirstRun == runs = 0 /\ StartRun

NextOneRun == FirstRun \/ RunStep

OneRunSpec == InitOneRun /\ [][NextOneRun]_vars

\* Fairness of a started run: no call blocks forever.  At the fetch the
\* condition names ScrapeFails only: it is enabled in exactly the states
\* where ScrapeOk is, and either step ends the fetch, so the condition says
\* no more than "the fetch ends", it does not make fetches fail.
Progress ==
  \/ LoopTop
  \/ ScrapeFails
  \/ FailNotify
  \/ Heartbeat
  \/ Decide
  \/ Sleep
  \/ Save

FairSpec == InitOneRun /\ [][NextOneRun]_vars /\ WF_vars(Progress)

\* ------------------------------------------------------------------------
\* scrape_once and free_hash as functions of the page: the parse of one page
\* and the first statements of the message logic (lines 174, 207-209), on
\* any page of AllPages
\* ------------------------------------------------------------------------
InitScrape ==
  /\ file = [kind |-> "absent", data |-> DefaultState]
  /\ pc = "page"
  /\ wall = 1
  /\ page \in AllPages
  /\ InitRest

ApplyScrape ==
  /\ pc = "page"
  /\ pc' = "scraped"
  /\ snap' = scrape_once(page)
  /\ dec' = [had_free |-> snap'.free_units_sorted # <<>>,
             current_hash |-> free_hash(snap'.free_units_sorted),
             last_hash |-> state.last_free_hash]
  /\ UNCHANGED << file, state, elapsed, wall, now, heartbeat_checked,
                  still_sent, loop_i, out, how, exit_status, runs, loaded,
                  state0, stillRun, hbCount, exits, page, alerted >>

ScrapeSpec == InitScrape /\ [][ApplyScrape]_vars

\* ------------------------------------------------------------------------
\* Properties
\* ------------------------------------------------------------------------
\* send_telegram calls of the current cycle carrying a message of this kind
Tried(kind) == Cardinality({i \in DOMAIN out : out[i].kind = kind})

\* those of them that were delivered
Delivered(kind) ==
  Cardinality({i \in DOMAIN out : out[i].kind = kind /\ out[i].ok})

\* the scrape of the current cycle failed
FetchFailed ==
  \/ how = "fetch_error"
  \/ \E i \in DOMAIN out : out[i].kind \in {"HTTPError", "ERROR"}

\* C1: a cycle whose FreeList is non-empty and whose signature differs from
\* the last one emits exactly one ALERT, no STILL and no GONE, and leaves
\* state["last_free_hash"] equal to the current signature.
C1_NewSignatureAlerts ==
  (dec.had_free /\ dec.current_hash # dec.last_hash) =>
    /\ Delivered("ALERT") = 1
    /\ Tried("STILL") = 0
    /\ Tried("GONE") = 0
    /\ state.last_free_hash = dec.current_hash

\* C2: a cycle whose non-empty FreeList has the signature held in state
\* emits no ALERT and no GONE, at most one STILL, and leaves
\* state["last_free_hash"] as it was.
C2_SameSignatureKeepsState ==
  (dec.had_free /\ dec.current_hash = dec.last_hash) =>
    /\ Tried("ALERT") = 0
    /\ Tried("GONE") = 0
    /\ Tried("STILL") <= 1
    /\ state.last_free_hash = dec.last_hash
    /\ state.last_free_hash = state0.last_free_hash

C2_Witness ==
  /\ pc = "sleep"
  /\ loop_i = 1
  /\ loaded = "ok"
  /\ dec.had_free
  /\ dec.current_hash = dec.last_hash
  /\ Delivered("STILL") = 1

\* C3: the first empty cycle after a non-empty signature was recorded emits
\* one GONE and resets the signature to the sentinel; an empty cycle that
\* finds the sentinel emits no ALERT, STILL or GONE and leaves it in place.
C3_GoneOncePerTransition ==
  /\ (~dec.had_free /\ dec.last_hash # EmptyStr) =>
       /\ Delivered("GONE") = 1
       /\ state.last_free_hash = EmptyStr
  /\ (pc = "sleep" /\ ~dec.had_free /\ dec.last_hash = EmptyStr) =>
       /\ Tried("GONE") = 0
       /\ Tried("ALERT") = 0
       /\ Tried("STILL") = 0
       /\ state.last_free_hash = EmptyStr

\* C4: the STILL messages of one run never number more than
\* MAX_STILL_PER_RUN.
C4_StillCap == stillRun <= MAX_STILL_PER_RUN

\* the cap acts: a fourth cycle on the unchanged signature sends nothing
C4_Witness ==
  /\ pc = "sleep"
  /\ loop_i = 4
  /\ stillRun = MAX_STILL_PER_RUN
  /\ dec.had_free
  /\ dec.current_hash = dec.last_hash
  /\ out = <<>>

\* C5: at most one heartbeat is delivered per (date, hour), over all cycles
\* and all runs.
C5_OneHeartbeatPerHour == \A k \in HbKeys : hbCount[k] <= 1

\* C6: a heartbeat is sent only in the first cycle of a run, only in hours
\* 10 and 18, only in minutes 0..4 and only when its key differs from the
\* stored one; last_heartbeat_key changes only by a delivered heartbeat.
C6_HeartbeatOnlyWhenDue ==
  /\ Tried("HEARTBEAT") >= 1 =>
       /\ Tried("HEARTBEAT") = 1
       /\ loop_i = 1
       /\ WallClock[now].hour \in {10, 18}
       /\ WallClock[now].minute < 5
       /\ state0.last_heartbeat_key # hb_key(now)
  /\ state.last_heartbeat_key # state0.last_heartbeat_key =>
       /\ Delivered("HEARTBEAT") = 1
       /\ state.last_heartbeat_key = hb_key(now)
  /\ Delivered("HEARTBEAT") = 0 =>
       state.last_heartbeat_key = state0.last_heartbeat_key

C6_Witness ==
  /\ pc = "sleep"
  /\ loop_i = 1
  /\ loaded = "ok"
  /\ state0.last_heartbeat_key # EmptyStr
  /\ Delivered("HEARTBEAT") = 1
  /\ state.last_heartbeat_key = hb_key(now)

\* C7: a failed send never aborts the run.
C7_SendFailureNeverAborts ==
  (\E i \in DOMAIN out : ~out[i].ok) => pc # "crashed"

\* C8: a failed scrape ends the loop with no ALERT, STILL, GONE or heartbeat
\* in that cycle, with exactly one failure notification whose own failure is
\* swallowed, with the state the earlier cycles left, and that state is what
\* the run writes to state.json.
C8_FetchFailureStopsLoop ==
  FetchFailed =>
    /\ pc \in {"fail_notify", "save", "done"}
    /\ \A i \in DOMAIN out : out[i].kind \in {"HTTPError", "ERROR"}
    /\ Len(out) = (IF pc = "fail_notify" THEN 0 ELSE 1)
    /\ state = state0
    /\ pc = "done" => (file.kind = "ok" /\ file.data = state0)

C8_Witness ==
  /\ how = "fetch_error"
  /\ pc = "done"
  /\ loop_i = 2
  /\ state # load_state([kind |-> loaded, data |-> DefaultState])
  /\ Len(out) = 1
  /\ ~out[1].ok
  /\ file.data = state

\* C9: a run that finds state.json corrupt starts from the defaults and
\* does not abort.
C9_CorruptStateTreatedAsAbsent ==
  (runs > 0 /\ loaded = "corrupt") =>
    (how # "load_error" /\ pc # "crashed")

\* C10: a run whose loop completed normally and a run that aborted on a fetch
\* error never end with the same exit status.
C10_ExitStatusDistinguishes == exits.normal \cap exits.aborted = {}

KeyOf(a) == <<base_type(a.title), a.number>>

MonKeys == {KeyOf(page[i]) : i \in {j \in DOMAIN page :
                                     base_type(page[j].title) \in TARGET_TYPES}}

\* the first record of the page with this key, in document order
FirstOf(k) ==
  page[CHOOSE i \in DOMAIN page :
         /\ KeyOf(page[i]) = k
         /\ \A j \in 1..(i - 1) : KeyOf(page[j]) # k]

\* the units of a list, as a set
Units(l) == {l[i] : i \in DOMAIN l}

\* C12: the monitored total is the sum of the four status buckets.
C12_TotalIsSumOfBuckets ==
  pc = "scraped" =>
    snap.total_komfort =
      snap.status_counts["frei"] + snap.status_counts["reserviert"]
      + snap.status_counts["vermietet"] + snap.unknown_status

\* C13: scrape_once keeps, for each key of monitored type, exactly the first
\* record in document order: total, counts and FreeList are those of the
\* first records, whatever later records with the same key say.
C13_FirstRecordWins ==
  pc = "scraped" =>
    /\ snap.total_komfort = Cardinality(MonKeys)
    /\ \A s \in KnownStatus :
         snap.status_counts[s] =
           Cardinality({k \in MonKeys : StatusOf(FirstOf(k)) = s})
    /\ snap.unknown_status =
         Cardinality({k \in MonKeys :
                        StatusOf(FirstOf(k)) \notin KnownStatus \cup {"None"}})
    /\ Units(snap.free_units_sorted) =
         {<<k[1], k[2], FirstOf(k).link>> :
            k \in {m \in MonKeys : StatusOf(FirstOf(m)) = "frei"}}
    /\ Len(snap.free_units_sorted) =
         Cardinality(Units(snap.free_units_sorted))

\* unit 12 rented first and free later: one unit, rented, nothing free
C13_Witness ==
  /\ pc = "scraped"
  /\ page = <<ARented12, AFree12, AFree12NoLink>>
  /\ snap.total_komfort = 1
  /\ snap.status_counts["vermietet"] = 1
  /\ snap.free_units_sorted = <<>>

\* C14: free_hash is the sentinel exactly when the FreeList is empty, so
\* had_free and "current_hash is not the sentinel" agree.
C14_SentinelIffEmpty ==
  pc = "scraped" =>
    /\ (dec.current_hash = EmptyStr) <=> (snap.free_units_sorted = <<>>)
    /\ dec.had_free <=> (dec.current_hash # EmptyStr)

\* one free unit without a link still has a signature
C14_Witness ==
  /\ pc = "scraped"
  /\ Len(snap.free_units_sorted) = 1
  /\ snap.free_units_sorted[1][3] = "None"
  /\ dec.current_hash # EmptyStr

\* C15: no scrape is started in a cycle whose remaining budget at the top
\* of the cycle is below MIN_REMAINING_TO_START_SCRAPE; such a cycle leaves
\* the loop at once, with no fetch, no notification and no time spent.
C15_NoScrapeBelowThreshold ==
  /\ [](pc = "scrape" =>
          deadline - elapsed >= Ticks(MIN_REMAINING_TO_START_SCRAPE))
  /\ [][(pc = "loop_top"
           /\ deadline - elapsed < Ticks(MIN_REMAINING_TO_START_SCRAPE)) =>
          /\ pc' = "save"
          /\ how' = "no_budget"
          /\ out' = <<>>
          /\ page' = <<>>
          /\ elapsed' = elapsed]_vars

\* a run that left its loop at the top of its third cycle or later
C15_Witness ==
  /\ pc = "save"
  /\ how = "no_budget"
  /\ loop_i >= 3
  /\ deadline - elapsed < Ticks(MIN_REMAINING_TO_START_SCRAPE)
  /\ deadline - elapsed > 0

\* C16: after a completed cycle the sleep is min(interval, remaining), the
\* interval being the short one exactly when the cycle's FreeList is not
\* empty; the sleep never passes the deadline; with no budget left or a
\* clamped sleep below half a second the loop stops without sleeping.
C16_SleepClampedToBudget ==
  [][pc = "sleep" =>
       LET remaining == deadline - elapsed
           interval == IF snap.free_units_sorted # <<>>
                         THEN Ticks(POLL_INTERVAL_FREE_SEC)
                         ELSE Ticks(POLL_INTERVAL_NO_FREE_SEC)
       IN  IF remaining <= 0 \/ Min(interval, remaining) < MinSleepTicks
             THEN pc' = "save" /\ elapsed' = elapsed
             ELSE /\ pc' = "loop_top"
                  /\ elapsed' = elapsed + Min(interval, remaining)
                  /\ elapsed' <= deadline]_vars

\* a long interval cut down to the budget: the run woke up at its deadline
C16_Witness ==
  /\ pc = "loop_top"
  /\ loop_i = 2
  /\ snap.free_units_sorted = <<>>
  /\ elapsed = deadline

\* C17: when a cycle has completed its decision step, state["last_free_hash"]
\* is the signature of that cycle's FreeList, whatever it was before.
C17_StateHoldsCurrentSignature ==
  pc = "sleep" => state.last_free_hash = free_hash(snap.free_units_sorted)

\* a cycle that found the signature of a non-empty list and saw none free
C17_Witness ==
  /\ pc = "sleep"
  /\ state0.last_free_hash # EmptyStr
  /\ snap.free_units_sorted = <<>>
  /\ state.last_free_hash = EmptyStr

\* the ALERT of the current cycle was attempted and its send raised
AlertFailed ==
  /\ pc = "crashed"
  /\ Tried("ALERT") > 0
  /\ Delivered("ALERT") = 0

\* C18: a non-empty signature is in the state (in memory or on file), and a
\* STILL-ALERT is sent for it, only after an ALERT with that signature was
\* delivered; after an ALERT whose send failed the signature is recorded
\* neither in memory nor on file, so that the next run alerts again.
C18_AlertBeforeRecord ==
  /\ state.last_free_hash # EmptyStr => state.last_free_hash \in alerted
  /\ (file.kind = "ok" /\ file.data.last_free_hash # EmptyStr) =>
       file.data.last_free_hash \in alerted
  /\ Tried("STILL") > 0 => dec.current_hash \in alerted
  /\ AlertFailed => state.last_free_hash # dec.current_hash
  /\ AlertFailed => file.data.last_free_hash # dec.current_hash

\* the STILL-ALERT of the current cycle was held back by MAX_STILL_PER_RUN
CapSuppressed ==
  /\ pc = "sleep"
  /\ dec.had_free
  /\ dec.current_hash = dec.last_hash
  /\ Tried("STILL") = 0

\* C19: a run scrapes at most 4 times, and the cap of 3 holds a STILL-ALERT
\* back only in the fourth cycle of a run whose cycles all saw the signature
\* that was on file.
C19_AtMostFourScrapes ==
  /\ pc \in {"scrape", "fail_notify", "heartbeat", "decide", "sleep"} =>
       loop_i <= 4
  /\ CapSuppressed =>
       /\ loop_i = 4
       /\ stillRun = MAX_STILL_PER_RUN
       /\ loaded = "ok"
       /\ file.data.last_free_hash = dec.current_hash
       /\ state.last_free_hash = dec.current_hash

\* the fourth cycle of a run, its STILL-ALERT held back
C19_Witness ==
  /\ CapSuppressed
  /\ loop_i = 4
  /\ runs = 2

\* C20 as stated: every run lasts less than the 60 s between invocations.
C20_RunShorterThanPeriod == elapsed < Ticks(60)

\* C20: a run lasts at most RUN_WINDOW_SEC - MIN_REMAINING_TO_START_SCRAPE
\* + HTTP_GET_TIMEOUT + TELEGRAM_TIMEOUT = 67 s of fetching, sending and
\* sleeping: the last cycle starts with at least 8 s left and makes one
\* fetch and one send.
C20_RunLastsAtMost ==
  elapsed <= Ticks(RUN_WINDOW_SEC - MIN_REMAINING_TO_START_SCRAPE
                   + HTTP_GET_TIMEOUT + TELEGRAM_TIMEOUT)

\* a run that wrote the state file 60 s or more after it loaded it
C20_Witness ==
  /\ pc = "done"
  /\ file.kind = "ok"
  /\ elapsed >= Ticks(60)

====
